---- MODULE Spec2Model ----
(***************************************************************************)
(* A model of idx-lib (src/src/lib.rs): the IdxData tagged scalar with its *)
(* Add implementation, and the IDX decoder read_idx with the recursive     *)
(* traversal recurser that fills an ndarray ArrayD<IdxData>.               *)
(*                                                                         *)
(* Numbers wider than 31 bits are kept in pieces: a usize is 8 bytes, most *)
(* significant first (a 64-bit target), and a float is its IEEE-754 fields.*)
(* Stream I/O fails only by running out of bytes.  An allocation larger    *)
(* than the memory every machine is taken to have succeeds or aborts the   *)
(* process, as the machine decides.                                        *)
(***************************************************************************)
EXTENDS Integers, Sequences, FiniteSets, TLC

VARIABLES
    idx_source,       \* the stream: [buf: the bytes, pos: the read cursor]
    pc,               \* the position of read_idx
    data_type_buf,    \* the type code byte as read
    dimension_count_buf, \* the dimension count byte as read
    data_type,        \* the IdxType matched from the header ("unset" before)
    dimension_count,  \* the dimension count
    dimension_sizes,  \* Vec<usize>, each a usize of 8 bytes
    data,             \* the ArrayD<IdxData>: [allocated, shape, elems], elems
                      \* the elements assigned since zeros() (the rest are None)
    past_idxes,       \* the coordinate accumulator of recurser
    stack,            \* the call stack of recurser, innermost call last
    writes,           \* the element assignments made so far, in order
    result,           \* what read_idx returned
    lhs, rhs,         \* the operands of IdxData::add
    sum,              \* what add returned
    overflow_checks,  \* the build profile: TRUE panics on integer overflow
    apc               \* the position of the addition

vars == <<idx_source, pc, data_type_buf, dimension_count_buf, data_type,
          dimension_count, dimension_sizes, data, past_idxes, stack, writes,
          result, lhs, rhs, sum, overflow_checks, apc>>

decodeVars == <<idx_source, pc, data_type_buf, dimension_count_buf, data_type,
                dimension_count, dimension_sizes, data, past_idxes, stack,
                writes, result>>

addVars == <<lhs, rhs, sum, overflow_checks, apc>>

----------------------------------------------------------------------------
(* Bounds of the model. *)

\* The longest stream handed to read_idx, in bytes.
MaxStreamLen == 22

\* The largest dimension count byte of the generated headers.
MaxDims == 4

\* The turns of a `for i in 0..n` loop of recurser over subtrees without
\* elements that are followed one by one; the turns left are taken at once.
MaxIter == 14

----------------------------------------------------------------------------
(* Sequences and bytes. *)

Min(a, b) == IF a < b THEN a ELSE b

Max(a, b) == IF a > b THEN a ELSE b

Take(s, n) == SubSeq(s, 1, Min(n, Len(s)))

Reverse(s) == [k \in 1..Len(s) |-> s[Len(s) + 1 - k]]

RECURSIVE Pow2(_)
Pow2(n) == IF n = 0 THEN 1 ELSE 2 * Pow2(n - 1)

RECURSIVE Log2(_)
\* floor(log2 n) for n >= 1
Log2(n) == IF n < 2 THEN 0 ELSE 1 + Log2(n \div 2)

Abs(n) == IF n < 0 THEN 0 - n ELSE n

----------------------------------------------------------------------------
(* Natural numbers of any size, as base-256 digits, least significant      *)
(* first, for the usize arithmetic of the allocation.                      *)

RECURSIVE NatNorm(_)
\* without the leading zero digits (the last ones of the sequence)
NatNorm(a) ==
    IF a = <<>> THEN <<>>
    ELSE IF a[Len(a)] = 0 THEN NatNorm(SubSeq(a, 1, Len(a) - 1))
    ELSE a

RECURSIVE NatAddC(_, _, _)
NatAddC(a, b, c) ==
    IF a = <<>> /\ b = <<>> THEN (IF c = 0 THEN <<>> ELSE <<c>>)
    ELSE LET x == IF a = <<>> THEN 0 ELSE Head(a)
             y == IF b = <<>> THEN 0 ELSE Head(b)
             s == x + y + c
         IN  <<s % 256>> \o NatAddC(IF a = <<>> THEN <<>> ELSE Tail(a),
                                    IF b = <<>> THEN <<>> ELSE Tail(b),
                                    s \div 256)

NatAdd(a, b) == NatNorm(NatAddC(a, b, 0))

RECURSIVE NatMulDigit(_, _, _)
NatMulDigit(a, d, c) ==
    IF a = <<>> THEN (IF c = 0 THEN <<>> ELSE <<c>>)
    ELSE LET s == Head(a) * d + c
         IN  <<s % 256>> \o NatMulDigit(Tail(a), d, s \div 256)

RECURSIVE NatMul(_, _)
NatMul(a, b) ==
    IF b = <<>> THEN <<>>
    ELSE NatAdd(NatNorm(NatMulDigit(a, Head(b), 0)),
                NatNorm(<<0>> \o NatMul(a, Tail(b))))

RECURSIVE NatLeqRev(_, _)
\* a <= b for two digit sequences of one length, most significant first
NatLeqRev(a, b) ==
    IF a = <<>> THEN TRUE
    ELSE IF Head(a) # Head(b) THEN Head(a) < Head(b)
    ELSE NatLeqRev(Tail(a), Tail(b))

NatLeq(a, b) ==
    LET x == NatNorm(a)
        y == NatNorm(b)
    IN  IF Len(x) # Len(y) THEN Len(x) < Len(y)
        ELSE NatLeqRev(Reverse(x), Reverse(y))

RECURSIVE NatOfInt(_)
NatOfInt(n) == IF n = 0 THEN <<>> ELSE <<n % 256>> \o NatOfInt(n \div 256)

----------------------------------------------------------------------------
(* usize on a 64-bit target: 8 bytes, most significant first. *)

\* usize::MAX and isize::MAX
UsizeMax == <<255, 255, 255, 255, 255, 255, 255, 255>>

IsizeMax == <<127, 255, 255, 255, 255, 255, 255, 255>>

UsizeToNat(u) == NatNorm(Reverse(u))

\* a usize below 2^31, which an integer of the model holds
UsizeIsSmall(u) == u[1] = 0 /\ u[2] = 0 /\ u[3] = 0 /\ u[4] = 0 /\ u[5] < 128

UsizeSmall(u) == ((u[5] * 256 + u[6]) * 256 + u[7]) * 256 + u[8]

UsizeIsZero(u) == \A k \in 1..Len(u) : u[k] = 0

\* i < u, for an index i the model holds as an integer
IndexBelow(i, u) == ~UsizeIsSmall(u) \/ i < UsizeSmall(u)

\* `i32::from_be_bytes(buf) as usize`: the cast of a signed value sign-extends
I32AsUsize(buf) ==
    IF buf[1] >= 128 THEN <<255, 255, 255, 255>> \o buf
    ELSE <<0, 0, 0, 0>> \o buf

----------------------------------------------------------------------------
(* IEEE-754 floats as their fields: [sign, exp, man], man the mantissa     *)
(* bits in limbs, most significant first: <<23 bits>> for an f32 and       *)
(* <<20 bits, 16 bits, 16 bits>> for an f64.                               *)

F32FromBe(buf) ==
    [sign |-> buf[1] \div 128,
     exp  |-> (buf[1] % 128) * 2 + buf[2] \div 128,
     man  |-> << ((buf[2] % 128) * 256 + buf[3]) * 256 + buf[4] >>]

F64FromBe(buf) ==
    [sign |-> buf[1] \div 128,
     exp  |-> (buf[1] % 128) * 16 + buf[2] \div 16,
     man  |-> << ((buf[2] % 16) * 256 + buf[3]) * 256 + buf[4],
                 buf[5] * 256 + buf[6],
                 buf[7] * 256 + buf[8] >>]

FloatIsNaN(x, emax) == x.exp = emax /\ (\E k \in 1..Len(x.man) : x.man[k] # 0)

FloatIsZero(x) == x.exp = 0 /\ (\A k \in 1..Len(x.man) : x.man[k] = 0)

\* f32/f64 `==`: a NaN equals nothing, and the two zeros are equal
FloatEq(x, y, emax) ==
    /\ ~FloatIsNaN(x, emax)
    /\ ~FloatIsNaN(y, emax)
    /\ (x = y \/ (FloatIsZero(x) /\ FloatIsZero(y)))

\* The value of a float that holds an integer of magnitude below 2^w
\* (w the width of the first mantissa limb).
FloatToInt(x, bias, w) ==
    IF FloatIsZero(x) THEN 0
    ELSE LET e == x.exp - bias
             m == (Pow2(w) + x.man[1]) \div Pow2(w - e)
         IN  IF x.sign = 1 THEN 0 - m ELSE m

FloatOfInt(n, bias, w, zero) ==
    IF n = 0 THEN [sign |-> 0, exp |-> 0, man |-> zero]
    ELSE LET a == Abs(n)
             e == Log2(a)
         IN  [sign |-> IF n < 0 THEN 1 ELSE 0,
              exp  |-> bias + e,
              man  |-> [zero EXCEPT ![1] = (a - Pow2(e)) * Pow2(w - e)]]

\* f32/f64 `+` on the floats the model adds: NaNs, zeros and integers whose
\* sum the mantissa holds exactly.
FloatAdd(x, y, bias, w, emax) ==
    LET zero == [k \in 1..Len(x.man) |-> 0]
    IN  IF FloatIsNaN(x, emax) THEN x
        ELSE IF FloatIsNaN(y, emax) THEN y
        ELSE IF FloatIsZero(x) /\ FloatIsZero(y)
             THEN [sign |-> IF x.sign = 1 /\ y.sign = 1 THEN 1 ELSE 0,
                   exp |-> 0, man |-> zero]
        ELSE FloatOfInt(FloatToInt(x, bias, w) + FloatToInt(y, bias, w),
                        bias, w, zero)

----------------------------------------------------------------------------
(* enum IdxData and impl Add for IdxData. *)

IdxNone == [tag |-> "None", val |-> 0]

IdxData(tag, val) == [tag |-> tag, val |-> val]

\* the outcome of a call that panicked
Panic == [tag |-> "panic", val |-> 0]

\* #[derive(PartialEq)]: the same variant and equal payloads
IdxEq(a, b) ==
    /\ a.tag = b.tag
    /\ CASE a.tag = "Float"  -> FloatEq(a.val, b.val, 255)
         [] a.tag = "Double" -> FloatEq(a.val, b.val, 2047)
         [] OTHER            -> a.val = b.val

\* val1 + val2 on an integer type of range lo..hi: a panic when the build
\* checks overflow, the wrapped sum otherwise
IntAdd(tag, a, b, lo, hi, checks) ==
    IF b > 0 /\ a > hi - b
    THEN (IF checks THEN Panic ELSE IdxData(tag, (a - hi - 1) + (b + lo)))
    ELSE IF b < 0 /\ a < lo - b
    THEN (IF checks THEN Panic ELSE IdxData(tag, (a - lo) + (b + hi + 1)))
    ELSE IdxData(tag, a + b)

\* the body of each arm of the match: the sum, or unreachable!()
AddPayloads(self, other, checks) ==
    IF other.tag # self.tag THEN Panic
    ELSE CASE self.tag = "UnsignedByte" ->
                IntAdd("UnsignedByte", self.val, other.val, 0, 255, checks)
           [] self.tag = "SignedByte" ->
                IntAdd("SignedByte", self.val, other.val, 0 - 128, 127, checks)
           [] self.tag = "Short" ->
                IntAdd("Short", self.val, other.val, 0 - 32768, 32767, checks)
           [] self.tag = "Int" ->
                IntAdd("Int", self.val, other.val,
                       0 - 2147483647 - 1, 2147483647, checks)
           [] self.tag = "Float" ->
                IdxData("Float", FloatAdd(self.val, other.val, 127, 23, 255))
           [] self.tag = "Double" ->
                IdxData("Double", FloatAdd(self.val, other.val, 1023, 20, 2047))

\* add without its `if self != rhs` guard
add_unguarded(self, other, checks) ==
    IF self.tag = "None" THEN IdxNone
    ELSE AddPayloads(self, other, checks)

add(self, other, checks) ==
    IF ~IdxEq(self, other) THEN IdxNone
    ELSE IF self.tag = "None" THEN IdxNone
    ELSE AddPayloads(self, other, checks)

\* The scalars the additions are drawn from.
F32Samples ==
    {F32FromBe(b) : b \in {<<0, 0, 0, 0>>, <<128, 0, 0, 0>>, <<63, 128, 0, 0>>,
                           <<64, 64, 0, 0>>, <<64, 128, 0, 0>>,
                           <<127, 192, 0, 0>>}}

F64Samples ==
    {F64FromBe(b) : b \in {<<0, 0, 0, 0, 0, 0, 0, 0>>,
                           <<63, 240, 0, 0, 0, 0, 0, 0>>,
                           <<64, 8, 0, 0, 0, 0, 0, 0>>,
                           <<64, 16, 0, 0, 0, 0, 0, 0>>,
                           <<127, 248, 0, 0, 0, 0, 0, 0>>}}

IdxSamples ==
    {IdxNone}
    \cup {IdxData("UnsignedByte", v) : v \in {0, 3, 4, 200, 255}}
    \cup {IdxData("SignedByte", v) : v \in {0 - 128, 0 - 1, 3, 4, 100}}
    \cup {IdxData("Short", v) : v \in {0 - 32768, 3, 4, 32767}}
    \cup {IdxData("Int", v) : v \in {0 - 2147483647 - 1, 3, 4, 2147483647}}
    \cup {IdxData("Float", v) : v \in F32Samples}
    \cup {IdxData("Double", v) : v \in F64Samples}

\* The locals of read_idx before it runs.
NoData == [allocated |-> FALSE, shape |-> <<>>, elems |-> <<>>]

Pending == [kind |-> "pending", error |-> "", tensor |-> NoData]

DecodeLocalsInit ==
    /\ data_type_buf = <<0>>
    /\ dimension_count_buf = <<0>>
    /\ data_type = "unset"
    /\ dimension_count = 0
    /\ dimension_sizes = <<>>
    /\ data = NoData
    /\ past_idxes = <<>>
    /\ stack = <<>>
    /\ writes = <<>>
    /\ result = Pending

IdleDecode ==
    /\ idx_source = [buf |-> <<>>, pos |-> 0]
    /\ pc = "idle"
    /\ DecodeLocalsInit

InitAdd ==
    /\ IdleDecode
    /\ lhs \in IdxSamples
    /\ rhs \in IdxSamples
    /\ overflow_checks \in BOOLEAN
    /\ sum = "none"
    /\ apc = "call"

\* lhs + rhs
Add ==
    /\ apc = "call"
    /\ sum' = add(lhs, rhs, overflow_checks)
    /\ apc' = "done"
    /\ UNCHANGED <<lhs, rhs, overflow_checks>>
    /\ UNCHANGED decodeVars

NextAdd == Add

SpecAdd == InitAdd /\ [][NextAdd]_vars

----------------------------------------------------------------------------
(* The scalar decoders: <int>::from_be_bytes. *)

SignedByteOf(b) == IF b >= 128 THEN b - 256 ELSE b

U8FromBe(buf) == buf[1]

\* i8::from_be_bytes read as u8::from_be_bytes
I8FromBe_unsigned(buf) == buf[1]

I8FromBe(buf) == SignedByteOf(buf[1])

I16FromBe(buf) == SignedByteOf(buf[1]) * 256 + buf[2]

I32FromBe(buf) == ((SignedByteOf(buf[1]) * 256 + buf[2]) * 256 + buf[3]) * 256 + buf[4]

\* the size of the buffer each arm of recurser's match reads
ScalarWidth(type) ==
    CASE type = "UnsignedByte" -> 1
      [] type = "SignedByte"   -> 1
      [] type = "Short"        -> 2
      [] type = "Int"          -> 4
      [] type = "Float"        -> 4
      [] type = "Double"       -> 8

\* the IdxData each arm of recurser's match stores
DecodeScalar(type, buf) ==
    CASE type = "UnsignedByte" -> IdxData("UnsignedByte", U8FromBe(buf))
      [] type = "SignedByte"   -> IdxData("SignedByte", I8FromBe(buf))
      [] type = "Short"        -> IdxData("Short", I16FromBe(buf))
      [] type = "Int"          -> IdxData("Int", I32FromBe(buf))
      [] type = "Float"        -> IdxData("Float", F32FromBe(buf))
      [] type = "Double"       -> IdxData("Double", F64FromBe(buf))

\* the match with a seventh arm, 0x07 taken for an unsigned byte
IdxTypeOf_accepts_7(code) ==
    CASE code = 7  -> "UnsignedByte"
      [] code = 8  -> "UnsignedByte"
      [] code = 9  -> "SignedByte"
      [] code = 11 -> "Short"
      [] code = 12 -> "Int"
      [] code = 13 -> "Float"
      [] code = 14 -> "Double"
      [] OTHER     -> "unrecognized"

\* the match of read_idx on the type code; "unrecognized" is its `_` arm
IdxTypeOf(code) ==
    CASE code = 8  -> "UnsignedByte"
      [] code = 9  -> "SignedByte"
      [] code = 11 -> "Short"
      [] code = 12 -> "Int"
      [] code = 13 -> "Float"
      [] code = 14 -> "Double"
      [] OTHER     -> "unrecognized"

----------------------------------------------------------------------------
(* ndarray: ArrayD::zeros and indexing. *)

\* usize::checked_mul, on naturals: [ok, val]
CheckedMul(a, b) ==
    LET p == NatMul(a, b)
    IN  IF NatLeq(p, UsizeToNat(UsizeMax)) THEN [ok |-> TRUE, val |-> p]
        ELSE [ok |-> FALSE, val |-> <<>>]

RECURSIVE SizeNonzero(_, _)
\* the checked product of the nonzero axis lengths, from acc
SizeNonzero(shape, acc) ==
    IF shape = <<>> \/ ~acc.ok THEN acc
    ELSE IF UsizeIsZero(Head(shape)) THEN SizeNonzero(Tail(shape), acc)
    ELSE SizeNonzero(Tail(shape), CheckedMul(acc.val, UsizeToNat(Head(shape))))

\* the element count of a shape whose nonzero product did not overflow
ShapeSize(shape) ==
    IF \E k \in 1..Len(shape) : UsizeIsZero(shape[k]) THEN <<>>
    ELSE SizeNonzero(shape, [ok |-> TRUE, val |-> <<1>>]).val

\* Whether ArrayD::zeros(IxDyn(shape)) panics: the product of the nonzero axis
\* lengths overflows isize, or the Vec of 16-byte IdxData exceeds isize::MAX
\* bytes ("capacity overflow").
ZerosPanics(shape) ==
    LET nz == SizeNonzero(shape, [ok |-> TRUE, val |-> <<1>>])
    IN  \/ ~nz.ok
        \/ ~NatLeq(nz.val, UsizeToNat(IsizeMax))
        \/ ~NatLeq(NatMul(ShapeSize(shape), <<16>>), UsizeToNat(IsizeMax))

\* the memory every machine is taken to have: 2^30 bytes, as a natural
GuaranteedMemory == <<0, 0, 0, 64>>

\* Whether the Vec of ArrayD::zeros may fail to allocate (the process then
\* aborts: "memory allocation of .. bytes failed").
AllocationMayFail(shape) ==
    ~NatLeq(NatMul(ShapeSize(shape), <<16>>), GuaranteedMemory)

\* whether data[index] is inside the array (it panics otherwise)
InBounds(shape, index) ==
    /\ Len(index) = Len(shape)
    /\ \A k \in 1..Len(index) : IndexBelow(index[k], shape[k])

----------------------------------------------------------------------------
(* The streams handed to read_idx. *)

TypeCodes == {7, 8, 9, 11, 12, 13, 14}

\* the two reserved leading bytes
ReservedFields == {<<0, 0>>, <<255, 1>>}

\* dimension size fields: 0, 1, 2, i32::MAX and -1
DimFields ==
    {<<0, 0, 0, 0>>, <<0, 0, 0, 1>>, <<0, 0, 0, 2>>,
     <<127, 255, 255, 255>>, <<255, 255, 255, 255>>}

\* element data: all 0xFF, the int 256 repeated, and a ramp through 0x80
DataPatterns ==
    {[k \in 1..MaxStreamLen |-> 255],
     [k \in 1..MaxStreamLen |-> IF k % 4 = 3 THEN 1 ELSE 0],
     [k \in 1..MaxStreamLen |-> (125 + k) % 256]}

RECURSIVE Concat(_)
Concat(ss) == IF ss = <<>> THEN <<>> ELSE Head(ss) \o Concat(Tail(ss))

IdleAdd ==
    /\ lhs = IdxNone
    /\ rhs = IdxNone
    /\ sum = "none"
    /\ overflow_checks = FALSE
    /\ apc = "idle"

Init ==
    /\ IdleAdd
    /\ DecodeLocalsInit
    /\ pc = "seek"
    /\ \E r \in ReservedFields, t \in TypeCodes, n \in 0..MaxDims,
          p \in DataPatterns, len \in 0..MaxStreamLen :
          \E ds \in [1..n -> DimFields] :
              idx_source = [buf |-> Take(r \o <<t, n>> \o Concat(ds) \o p, len),
                            pos |-> 0]

----------------------------------------------------------------------------
(* read_idx. *)

Buf == idx_source.buf

Pos == idx_source.pos

\* read_exact(&mut [0u8; n]) succeeds
CanRead(n) == Pos + n <= Len(Buf)

ReadBytes(n) == SubSeq(Buf, Pos + 1, Pos + n)

Advance(n) == [idx_source EXCEPT !.pos = Pos + n]

Ok(tensor) == [kind |-> "Ok", error |-> "", tensor |-> tensor]

Err(e) == [kind |-> "Err", error |-> e, tensor |-> NoData]

Panicked == [kind |-> "panic", error |-> "", tensor |-> NoData]

\* the process was aborted (handle_alloc_error)
Aborted == [kind |-> "abort", error |-> "", tensor |-> NoData]

\* read_idx returns r: the `?` of every caller passes an error on
Return(r) ==
    /\ pc' = "done"
    /\ result' = r

\* A read_exact that the stream cannot satisfy: UnexpectedEof, the cursor left
\* at the end of the stream (or where a seek past the end had put it).
ShortRead ==
    /\ \E p \in {Len(Buf), Max(Pos, Len(Buf))} :
           idx_source' = [idx_source EXCEPT !.pos = p]
    /\ Return(Err("UnexpectedEof"))

\* idx_source.seek_relative(2)?
Seek ==
    /\ pc = "seek"
    /\ idx_source' = Advance(2)
    /\ pc' = "read_type"
    /\ UNCHANGED <<data_type_buf, dimension_count_buf, data_type,
                   dimension_count, dimension_sizes, data, past_idxes, stack,
                   writes, result>>
    /\ UNCHANGED addVars

\* idx_source.read_exact(&mut data_type_buf)?
ReadType ==
    /\ pc = "read_type"
    /\ IF CanRead(1)
       THEN /\ data_type_buf' = ReadBytes(1)
            /\ idx_source' = Advance(1)
            /\ pc' = "read_count"
            /\ UNCHANGED result
       ELSE /\ ShortRead
            /\ UNCHANGED data_type_buf
    /\ UNCHANGED <<dimension_count_buf, data_type, dimension_count,
                   dimension_sizes, data, past_idxes, stack, writes>>
    /\ UNCHANGED addVars

\* idx_source.read_exact(&mut dimension_count_buf)?
ReadCount ==
    /\ pc = "read_count"
    /\ IF CanRead(1)
       THEN /\ dimension_count_buf' = ReadBytes(1)
            /\ idx_source' = Advance(1)
            /\ pc' = "match_type"
            /\ UNCHANGED result
       ELSE /\ ShortRead
            /\ UNCHANGED dimension_count_buf
    /\ UNCHANGED <<data_type_buf, data_type, dimension_count, dimension_sizes,
                   data, past_idxes, stack, writes>>
    /\ UNCHANGED addVars

\* let data_type = match u8::from_be_bytes(data_type_buf) { .. };
\* let dimension_count = u8::from_be_bytes(dimension_count_buf);
MatchType ==
    /\ pc = "match_type"
    /\ IF IdxTypeOf(U8FromBe(data_type_buf)) = "unrecognized"
       THEN /\ Return(Err("IdxError"))
            /\ UNCHANGED <<data_type, dimension_count>>
       ELSE /\ data_type' = IdxTypeOf(U8FromBe(data_type_buf))
            /\ dimension_count' = U8FromBe(dimension_count_buf)
            /\ pc' = "dimensions"
            /\ UNCHANGED result
    /\ UNCHANGED <<idx_source, data_type_buf, dimension_count_buf,
                   dimension_sizes, data, past_idxes, stack, writes>>
    /\ UNCHANGED addVars

\* one turn of `for _ in 0..dimension_count`
ReadDimension ==
    /\ pc = "dimensions"
    /\ Len(dimension_sizes) < dimension_count
    /\ IF CanRead(4)
       THEN /\ dimension_sizes' = Append(dimension_sizes, I32AsUsize(ReadBytes(4)))
            /\ idx_source' = Advance(4)
            /\ UNCHANGED <<pc, result>>
       ELSE /\ ShortRead
            /\ UNCHANGED dimension_sizes
    /\ UNCHANGED <<data_type_buf, dimension_count_buf, data_type,
                   dimension_count, data, past_idxes, stack, writes>>
    /\ UNCHANGED addVars

\* let mut data: ArrayD<IdxData> = ArrayD::zeros(IxDyn(&dimension_sizes));
Allocate ==
    /\ pc = "dimensions"
    /\ Len(dimension_sizes) >= dimension_count
    /\ IF ZerosPanics(dimension_sizes)
       THEN /\ Return(Panicked)
            /\ UNCHANGED data
       ELSE \E allocated \in IF AllocationMayFail(dimension_sizes)
                              THEN BOOLEAN ELSE {TRUE} :
                IF allocated
                THEN /\ data' = [allocated |-> TRUE, shape |-> dimension_sizes,
                                 elems |-> <<>>]
                     /\ pc' = "process"
                     /\ UNCHANGED result
                ELSE /\ Return(Aborted)
                     /\ UNCHANGED data
    /\ UNCHANGED <<idx_source, data_type_buf, dimension_count_buf, data_type,
                   dimension_count, dimension_sizes, past_idxes, stack, writes>>
    /\ UNCHANGED addVars

----------------------------------------------------------------------------
(* process_dimensions and recurser.  A frame of the stack is one call of   *)
(* recurser: [at, current_idx, my_idx, i], at "entry" before its first     *)
(* line, "loop" at the head of its for loop, "ret" at its Ok(()).          *)

Frame(at, current_idx, my_idx, i) ==
    [at |-> at, current_idx |-> current_idx, my_idx |-> my_idx, i |-> i]

Top == stack[Len(stack)]

SetTop(f) == [stack EXCEPT ![Len(stack)] = f]

\* recurser(idx_source, data, dimension_sizes, data_type, &mut vec![])
ProcessDimensions ==
    /\ pc = "process"
    /\ past_idxes' = <<>>
    /\ stack' = <<Frame("entry", 0, 0, 0)>>
    /\ pc' = "recurse"
    /\ UNCHANGED <<idx_source, data_type_buf, dimension_count_buf, data_type,
                   dimension_count, dimension_sizes, data, writes, result>>
    /\ UNCHANGED addVars

\* the branch `current_idx == dimension_sizes.len()`: read one scalar and
\* store it at data[&past_idxes[..]]
RecurserRead ==
    /\ pc = "recurse"
    /\ Top.at = "entry"
    /\ Len(past_idxes) = Len(dimension_sizes)
    /\ IF ~CanRead(ScalarWidth(data_type))
       THEN /\ ShortRead
            /\ UNCHANGED <<data, stack, writes>>
       ELSE /\ idx_source' = Advance(ScalarWidth(data_type))
            /\ IF ~InBounds(data.shape, past_idxes)
               THEN /\ Return(Panicked)
                    /\ UNCHANGED <<data, stack, writes>>
               ELSE LET v == DecodeScalar(data_type,
                                          ReadBytes(ScalarWidth(data_type)))
                    IN  /\ data' = [data EXCEPT !.elems =
                                      [c \in DOMAIN data.elems \cup {past_idxes}
                                         |-> IF c = past_idxes THEN v
                                             ELSE data.elems[c]]]
                        /\ writes' = Append(writes, [index |-> past_idxes,
                                                     value |-> v,
                                                     offset |-> Pos])
                        /\ stack' = SetTop(Frame("ret", Len(past_idxes),
                                                 Top.my_idx, Top.i))
                        /\ UNCHANGED <<pc, result>>
    /\ UNCHANGED <<data_type_buf, dimension_count_buf, data_type,
                   dimension_count, dimension_sizes, past_idxes>>
    /\ UNCHANGED addVars

\* the else branch up to the loop: my_idx = past_idxes.len(); push(0)
RecurserDescend ==
    /\ pc = "recurse"
    /\ Top.at = "entry"
    /\ Len(past_idxes) # Len(dimension_sizes)
    /\ IF Len(past_idxes) >= Len(dimension_sizes)
       THEN \* dimension_sizes[current_idx] is out of bounds
            /\ Return(Panicked)
            /\ UNCHANGED <<past_idxes, stack>>
       ELSE /\ past_idxes' = Append(past_idxes, 0)
            /\ stack' = SetTop(Frame("loop", Len(past_idxes), Len(past_idxes), 0))
            /\ UNCHANGED <<pc, result>>
    /\ UNCHANGED <<idx_source, data_type_buf, dimension_count_buf, data_type,
                   dimension_count, dimension_sizes, data, writes>>
    /\ UNCHANGED addVars

\* Whether no element lies below the loop of a call at depth current_idx: a
\* deeper axis has length 0, so the calls of the loop read and store nothing.
SubtreeEmpty(current_idx) ==
    \E k \in current_idx + 2..Len(dimension_sizes) :
        UsizeIsZero(dimension_sizes[k])

\* the turns of a loop that are followed one by one
StepsThrough(frame) == frame.i < MaxIter \/ ~SubtreeEmpty(frame.current_idx)

\* the loop turn without `past_idxes[my_idx] = i`
RecurserIterate_no_store ==
    /\ pc = "recurse"
    /\ Top.at = "loop"
    /\ IndexBelow(Top.i, dimension_sizes[Top.current_idx + 1])
    /\ StepsThrough(Top)
    /\ stack' = Append(stack, Frame("entry", 0, 0, 0))
    /\ UNCHANGED <<idx_source, pc, data_type_buf, dimension_count_buf,
                   data_type, dimension_count, dimension_sizes, data,
                   past_idxes, writes, result>>
    /\ UNCHANGED addVars

\* one turn of `for i in 0..dimension_sizes[current_idx]`:
\* past_idxes[my_idx] = i; recurser(..)?
RecurserIterate ==
    /\ pc = "recurse"
    /\ Top.at = "loop"
    /\ IndexBelow(Top.i, dimension_sizes[Top.current_idx + 1])
    /\ StepsThrough(Top)
    /\ IF Top.my_idx >= Len(past_idxes)
       THEN \* past_idxes[my_idx] is out of bounds
            /\ Return(Panicked)
            /\ UNCHANGED <<past_idxes, stack>>
       ELSE /\ past_idxes' = [past_idxes EXCEPT ![Top.my_idx + 1] = Top.i]
            /\ stack' = Append(stack, Frame("entry", 0, 0, 0))
            /\ UNCHANGED <<pc, result>>
    /\ UNCHANGED <<idx_source, data_type_buf, dimension_count_buf, data_type,
                   dimension_count, dimension_sizes, data, writes>>
    /\ UNCHANGED addVars

\* All the turns left of a loop over subtrees without elements: each sets
\* past_idxes[my_idx] = i and makes a call that reads nothing, stores nothing
\* and returns Ok(()) with past_idxes as long as before; the loop ends with
\* i at the axis length and the last index in past_idxes.
RecurserIterateEmpty ==
    /\ pc = "recurse"
    /\ Top.at = "loop"
    /\ IndexBelow(Top.i, dimension_sizes[Top.current_idx + 1])
    /\ ~StepsThrough(Top)
    /\ UsizeIsSmall(dimension_sizes[Top.current_idx + 1])
    /\ LET n == UsizeSmall(dimension_sizes[Top.current_idx + 1])
       IN  /\ past_idxes' = [past_idxes EXCEPT ![Top.my_idx + 1] = n - 1]
           /\ stack' = SetTop(Frame("loop", Top.current_idx, Top.my_idx, n))
    /\ UNCHANGED <<idx_source, pc, data_type_buf, dimension_count_buf,
                   data_type, dimension_count, dimension_sizes, data, writes,
                   result>>
    /\ UNCHANGED addVars

\* the end of the loop without `past_idxes.pop()`
RecurserExit_no_pop ==
    /\ pc = "recurse"
    /\ Top.at = "loop"
    /\ ~IndexBelow(Top.i, dimension_sizes[Top.current_idx + 1])
    /\ stack' = SetTop(Frame("ret", Top.current_idx, Top.my_idx, Top.i))
    /\ UNCHANGED <<idx_source, pc, data_type_buf, dimension_count_buf,
                   data_type, dimension_count, dimension_sizes, data,
                   past_idxes, writes, result>>
    /\ UNCHANGED addVars

\* the loop is exhausted: past_idxes.pop(); Ok(())
RecurserExit ==
    /\ pc = "recurse"
    /\ Top.at = "loop"
    /\ ~IndexBelow(Top.i, dimension_sizes[Top.current_idx + 1])
    /\ past_idxes' = SubSeq(past_idxes, 1, Len(past_idxes) - 1)
    /\ stack' = SetTop(Frame("ret", Top.current_idx, Top.my_idx, Top.i))
    /\ UNCHANGED <<idx_source, pc, data_type_buf, dimension_count_buf,
                   data_type, dimension_count, dimension_sizes, data, writes,
                   result>>
    /\ UNCHANGED addVars

\* a call returns Ok(()): to the loop of its caller, which steps to the next
\* i, or from the outermost call through process_dimensions to read_idx,
\* which returns Ok(data)
RecurserReturn ==
    /\ pc = "recurse"
    /\ Top.at = "ret"
    /\ IF Len(stack) > 1
       THEN /\ stack' = [SubSeq(stack, 1, Len(stack) - 1)
                           EXCEPT ![Len(stack) - 1].i = @ + 1]
            /\ UNCHANGED <<pc, result>>
       ELSE /\ stack' = <<>>
            /\ Return(Ok(data))
    /\ UNCHANGED <<idx_source, data_type_buf, dimension_count_buf, data_type,
                   dimension_count, dimension_sizes, data, past_idxes, writes>>
    /\ UNCHANGED addVars

Next ==
    \/ Seek
    \/ ReadType
    \/ ReadCount
    \/ MatchType
    \/ ReadDimension
    \/ Allocate
    \/ ProcessDimensions
    \/ RecurserRead
    \/ RecurserDescend
    \/ RecurserIterate
    \/ RecurserIterateEmpty
    \/ RecurserExit
    \/ RecurserReturn

Spec == Init /\ [][Next]_vars

----------------------------------------------------------------------------
(* What the stream declares, read off its bytes. *)

RecognizedCodes == {8, 9, 11, 12, 13, 14}

HasTypeByte == Len(Buf) >= 3

TypeByte == Buf[3]

HasCountByte == Len(Buf) >= 4

DeclaredCount == Buf[4]

HeaderLen == 4 + 4 * DeclaredCount

HeaderComplete == HasCountByte /\ Len(Buf) >= HeaderLen

\* the j-th dimension size field as the signed 32-bit integer it encodes
DeclaredDim(j) == I32FromBe(SubSeq(Buf, 4 * j + 1, 4 * j + 4))

DeclaredDims == [j \in 1..DeclaredCount |-> DeclaredDim(j)]

RECURSIVE NatProduct(_)
\* the product of a sequence of non-negative integers, as a natural
NatProduct(ds) ==
    IF ds = <<>> THEN <<1>>
    ELSE NatMul(NatOfInt(Head(ds)), NatProduct(Tail(ds)))

DeclaredWidth ==
    CASE TypeByte \in {8, 9}   -> 1
      [] TypeByte = 11         -> 2
      [] TypeByte \in {12, 13} -> 4
      [] TypeByte = 14         -> 8

DeclaredTag ==
    CASE TypeByte = 8  -> "UnsignedByte"
      [] TypeByte = 9  -> "SignedByte"
      [] TypeByte = 11 -> "Short"
      [] TypeByte = 12 -> "Int"
      [] TypeByte = 13 -> "Float"
      [] TypeByte = 14 -> "Double"

\* a recognized type code and a complete header of non-negative sizes
WellFormedHeader ==
    /\ HeaderComplete
    /\ TypeByte \in RecognizedCodes
    /\ \A j \in 1..DeclaredCount : DeclaredDim(j) >= 0

\* the stream holds every element the header declares
EnoughData ==
    NatLeq(NatMul(NatProduct(DeclaredDims), NatOfInt(DeclaredWidth)),
           NatOfInt(Len(Buf) - HeaderLen))

Done == pc = "done"

Succeeded == pc = "done" /\ result.kind = "Ok"

Unrecognized == pc = "done" /\ result = Err("IdxError")

\* the number of elements of the returned tensor that were assigned
Filled == Cardinality(DOMAIN result.tensor.elems)

RECURSIVE RowMajorRank(_, _, _)
\* the rank of a coordinate in row-major order, the last dimension fastest
RowMajorRank(index, dims, acc) ==
    IF index = <<>> THEN acc
    ELSE RowMajorRank(Tail(index), Tail(dims), acc * Head(dims) + Head(index))

\* the big-endian two's complement bytes of an integer, w of them
ToBeBytes(v, w) == [j \in 1..w |-> (v \div Pow2(8 * (w - j))) % 256]

InRange(tag, v) ==
    CASE tag = "UnsignedByte" -> 0 <= v /\ v <= 255
      [] tag = "SignedByte"   -> 0 - 128 <= v /\ v <= 127
      [] tag = "Short"        -> 0 - 32768 <= v /\ v <= 32767
      [] tag = "Int"          -> TRUE

\* the bytes of the k-th scalar of the element data (k from 0)
ScalarBytes(k) ==
    SubSeq(Buf, HeaderLen + k * DeclaredWidth + 1,
           HeaderLen + (k + 1) * DeclaredWidth)

----------------------------------------------------------------------------
(* The claims. *)

SameVariant == lhs.tag = rhs.tag /\ lhs.tag # "None"

\* whether the arithmetic sum of two integer payloads is a value of the type
SumFits(a, b, lo, hi) == ~(b > 0 /\ a > hi - b) /\ ~(b < 0 /\ a < lo - b)

\* the scalar of lhs's variant holding the arithmetic sum of the payloads
\* ("none" when the type has no such value)
ArithmeticSum ==
    LET int(lo, hi) == IF SumFits(lhs.val, rhs.val, lo, hi)
                       THEN IdxData(lhs.tag, lhs.val + rhs.val) ELSE Panic
    IN  CASE lhs.tag = "UnsignedByte" -> int(0, 255)
          [] lhs.tag = "SignedByte"   -> int(0 - 128, 127)
          [] lhs.tag = "Short"        -> int(0 - 32768, 32767)
          [] lhs.tag = "Int"          -> int(0 - 2147483647 - 1, 2147483647)
          [] lhs.tag = "Float"  ->
                IdxData("Float", FloatAdd(lhs.val, rhs.val, 127, 23, 255))
          [] lhs.tag = "Double" ->
                IdxData("Double", FloatAdd(lhs.val, rhs.val, 1023, 20, 2047))

\* C1: the sum of two scalars of the same non-absent variant, whatever their
\* payloads, is the scalar of that variant holding the arithmetic sum of the
\* payloads.
C1_SameVariantSum ==
    (apc = "done" /\ SameVariant /\ ArithmeticSum # Panic) => sum = ArithmeticSum

\* C2: the sum of two scalars of different variants, or with an absent
\* operand, is the absent variant: no panic and no numeric sum.
C2_MismatchIsNone ==
    (apc = "done" /\ ~SameVariant) => sum = IdxNone

C2_Witness ==
    /\ apc = "done"
    /\ lhs = IdxData("UnsignedByte", 3)
    /\ rhs = IdxData("SignedByte", 3)
    /\ sum = IdxNone

\* C3: a well formed header of sizes d1..dN over enough element data decodes
\* to a tensor of shape [d1..dN] with exactly the product of the di elements.
C3_ShapeAndCount ==
    (Done /\ WellFormedHeader /\ EnoughData) =>
        /\ result.kind = "Ok"
        /\ Len(result.tensor.shape) = DeclaredCount
        /\ \A j \in 1..DeclaredCount :
               /\ UsizeIsSmall(result.tensor.shape[j])
               /\ UsizeSmall(result.tensor.shape[j]) = DeclaredDim(j)
        /\ NatOfInt(Filled) = NatProduct(DeclaredDims)

\* C4: a successful decode assigns the k-th scalar of the element data to the
\* coordinate of row-major rank k, every coordinate once and none skipped.
C4_RowMajorOnce ==
    Succeeded =>
        /\ NatOfInt(Len(writes)) = NatProduct(DeclaredDims)
        /\ \A k \in 1..Len(writes) :
               /\ Len(writes[k].index) = DeclaredCount
               /\ RowMajorRank(writes[k].index, DeclaredDims, 0) = k - 1
               /\ writes[k].offset = HeaderLen + (k - 1) * DeclaredWidth
               /\ result.tensor.elems[writes[k].index] = writes[k].value
        /\ \A j, k \in 1..Len(writes) :
               j # k => writes[j].index # writes[k].index

C4_Witness ==
    /\ Succeeded
    /\ DeclaredCount = 2
    /\ Len(writes) = 4
    /\ writes[2].index = <<0, 1>>
    /\ writes[3].index = <<1, 0>>
    /\ writes[2].value # writes[3].value

\* C5: in a successful decode every element has the variant of the header's
\* type code, and under the four integer codes its payload is the big-endian
\* value of its bytes with the signedness of the type: 0xFF is 255 unsigned
\* and -1 signed, and 00 00 01 00 is the int 256.
C5_TypeFidelity ==
    Succeeded =>
        \A k \in 1..Len(writes) :
            LET e == result.tensor.elems[writes[k].index]
            IN  /\ e.tag = DeclaredTag
                /\ TypeByte \in {8, 9, 11, 12} =>
                       /\ InRange(e.tag, e.val)
                       /\ ToBeBytes(e.val, DeclaredWidth) = ScalarBytes(k - 1)
                /\ (TypeByte = 8 /\ ScalarBytes(k - 1) = <<255>>) => e.val = 255
                /\ (TypeByte = 9 /\ ScalarBytes(k - 1) = <<255>>) => e.val = 0 - 1
                /\ (TypeByte = 12 /\ ScalarBytes(k - 1) = <<0, 0, 1, 0>>) =>
                       e.val = 256

C5_Witness ==
    /\ Succeeded
    /\ TypeByte = 9
    /\ Len(writes) = 2
    /\ result.tensor.elems[<<1>>] = IdxData("SignedByte", 0 - 1)

\* C6 as claimed: an unrecognized type code fails with the unrecognized-type
\* error whatever follows the type byte, the cursor not past the type byte.
C6_Original ==
    (Done /\ HasTypeByte /\ TypeByte \notin RecognizedCodes) =>
        /\ result = Err("IdxError")
        /\ Pos <= 3

\* C6 as amended: with an unrecognized type code, read_idx reads the
\* dimension count byte before it fails: it returns the unrecognized-type
\* error with the cursor at offset 4, no dimension size or element byte read,
\* when that byte is there, and the truncation error when the stream ends
\* with the type byte.
C6_UnrecognizedAfterCount ==
    (Done /\ HasTypeByte /\ TypeByte \notin RecognizedCodes) =>
        /\ HasCountByte => (result = Err("IdxError") /\ Pos = 4)
        /\ ~HasCountByte => result = Err("UnexpectedEof")
        /\ dimension_sizes = <<>>
        /\ writes = <<>>

C6_Witness ==
    /\ Unrecognized
    /\ TypeByte = 7
    /\ Len(Buf) > 8
    /\ Pos = 4

\* C7: read_idx ends with an error and no tensor, or with a tensor whose
\* every element has been filled, and in no other way.
C7_ErrorOrFull ==
    Done =>
        \/ result.kind = "Err" /\ result.tensor = NoData
        \/ /\ result.kind = "Ok"
           /\ NatOfInt(Filled) = ShapeSize(result.tensor.shape)
           /\ \A c \in DOMAIN result.tensor.elems :
                  result.tensor.elems[c] # IdxNone

\* the stream ends before a byte the header makes read_idx need
EndsEarly ==
    \/ ~HasCountByte
    \/ /\ TypeByte \in RecognizedCodes
       /\ \/ ~HeaderComplete
          \/ /\ \A j \in 1..DeclaredCount : DeclaredDim(j) >= 1
             /\ ~EnoughData

\* C8: a stream that ends before the type byte, the count byte, a dimension
\* size or a byte of an element makes read_idx return the truncation error.
C8_ShortReadTruncates ==
    (Done /\ EndsEarly) => result = Err("UnexpectedEof")

\* C9: with a declared dimension size of 0, read_idx succeeds with a tensor
\* of no elements and the cursor at the end of the header, 4 + 4N.
C9_ZeroDimension ==
    (/\ Done
     /\ HeaderComplete
     /\ TypeByte \in RecognizedCodes
     /\ \E j \in 1..DeclaredCount : DeclaredDim(j) = 0) =>
        /\ result.kind = "Ok"
        /\ Filled = 0
        /\ Pos = HeaderLen

\* C10: at the entry of a recurser call the accumulator is as long as the
\* call is deep, at most N long, each entry below its dimension size; a
\* scalar is stored only under an accumulator of length N; a call that
\* returns leaves the accumulator as long as it found it, empty at the end.
C10_AccumulatorDepth ==
    /\ \A k \in 1..Len(stack) :
           /\ stack[k].at = "entry" =>
                  /\ Len(past_idxes) = k - 1
                  /\ Len(past_idxes) <= dimension_count
                  /\ \A j \in 1..Len(past_idxes) :
                         /\ 0 <= past_idxes[j]
                         /\ IndexBelow(past_idxes[j], dimension_sizes[j])
           /\ stack[k].at = "ret" =>
                  /\ stack[k].current_idx = k - 1
                  /\ Len(past_idxes) = stack[k].current_idx
    /\ \A k \in 1..Len(writes) : Len(writes[k].index) = dimension_count
    /\ Succeeded => past_idxes = <<>>

C10_Witness ==
    /\ pc = "recurse"
    /\ Len(stack) = 2
    /\ Top.at = "ret"
    /\ dimension_count = 3
    /\ Len(past_idxes) = 1
    /\ past_idxes[1] = 1
    /\ Len(writes) = 4

====
